---- MODULE Spec2Model ----
(***************************************************************************)
(* Model of the assignability relation of src/src/types.rs: the Type       *)
(* capability with its is_supertype_of hook, and the three representations *)
(* Primitive, Trait and Function.                                          *)
(*                                                                         *)
(* The trait nodes (Arc<Trait>) live in an arena, `traits`: node i is the  *)
(* i-th trait constructed and a handle to it is its index, so that node    *)
(* identity (ptr::eq) is index equality.  Primitive and Function values    *)
(* are immutable and compared by structure, so they are modelled as        *)
(* values.  A query self.is_assignable_to(other) is modelled twice: as the *)
(* recursive operator is_assignable_to, and as a machine that executes the *)
(* same code one call or one loop iteration at a time on an explicit call  *)
(* stack (specification LiveSpec).                                         *)
(***************************************************************************)
EXTENDS Naturals, Sequences, FiniteSets, TLC

VARIABLES
    traits,     \* the arena of trait nodes: traits[i].supertraits is a sequence of handles
    q,          \* the last query issued: its operands and, once returned, its result
    stack,      \* the call stack of the running query (LiveSpec)
    ret         \* the value the last returned call left for its caller (LiveSpec)

vars == <<traits, q, stack, ret>>

----------------------------------------------------------------------------
(* Bounds of the model. *)

MaxTraits == 3
MaxArgs == 2

\* Bit widths of Int and UInt, as used by the tests (types.rs:177-179).
Widths == {32, 64}
\* Argument names, as used by the tests (types.rs:227-228).
Names == {"a", "c"}

\* All sequences over S of length at most n.
SeqsUpTo(S, n) == UNION {[1..k -> S] : k \in 0..n}

----------------------------------------------------------------------------
(* Values. *)

\* Option<bool>: None is the empty sequence, Some(x) is <<x>>.
None == <<>>
Some(x) == <<x>>

\* enum Primitive { Void, Boolean, Int(usize), UInt(usize) }
Primitive(variant, width) == [kind |-> "Primitive", variant |-> variant, width |-> width]

Primitives ==
    {Primitive(v, 0) : v \in {"Void", "Boolean"}}
        \cup {Primitive(v, w) : v \in {"Int", "UInt"}, w \in Widths}

\* A handle (Arc<Trait>) to node i of the arena.
Trait(i) == [kind |-> "Trait", id |-> i]

\* Function::new: each (name, type) pair becomes a FunctionArgument.
FunctionNew(args, rt) ==
    [kind |-> "Function",
     args |-> [i \in DOMAIN args |-> [name |-> args[i][1], arg_type |-> args[i][2]]],
     return_type |-> rt]

\* The representations of this repository.
Kinds == {"Primitive", "Trait", "Function"}

\* A representation outside this repository that implements Type and overrides
\* is_supertype_of: its answer is a function of the candidate's representation.
Ext(opinion) == [kind |-> "Ext", opinion |-> opinion]

Opinions == {None, Some(TRUE), Some(FALSE)}

ExtTypes == {Ext(o) : o \in [Kinds -> Opinions]}

----------------------------------------------------------------------------
(* The Type capability. *)

\* Type::is_supertype_of: the default is None; Primitive, Trait and Function do
\* not override it.
MutHookIgnoresCandidate(other, candidate) ==
    IF other.kind = "Ext" THEN other.opinion["Primitive"] ELSE None

is_supertype_of(other, candidate) ==
    IF other.kind = "Ext" THEN other.opinion[candidate.kind] ELSE None

\* BoxedTypeUtils::cast::<T>: Some(x) when the value is of representation T.
cast(x, T) == IF x.kind = T THEN Some(x) ELSE None

\* std::ptr::eq on two &Trait.
eq(a, b) == a.id = b.id

RECURSIVE is_assignable_to(_, _, _)

\* impl Type for Primitive, after the hook: x == self (derived PartialEq).
MutPrimitiveIgnoresWidth(self, other) ==
    LET x == cast(other, "Primitive")
    IN  x # None /\ x[1].variant = self.variant

PrimitiveRule(self, other) ==
    LET x == cast(other, "Primitive")
    IN  x # None /\ x[1].variant = self.variant /\ x[1].width = self.width

\* impl Type for Trait, after the hook:
\* eq(self, x) || self.supertraits.iter().any(|s| s.is_assignable_to(x))
MutTraitDirectOnly(tr, self, other) ==
    LET x == cast(other, "Trait")
    IN  /\ x # None
        /\ \/ eq(self, x[1])
           \/ \E k \in DOMAIN tr[self.id].supertraits :
                  eq(Trait(tr[self.id].supertraits[k]), x[1])

MutTraitNoIdentity(tr, self, other) ==
    LET x == cast(other, "Trait")
    IN  /\ x # None
        /\ \E k \in DOMAIN tr[self.id].supertraits :
               is_assignable_to(tr, Trait(tr[self.id].supertraits[k]), x[1])

TraitRule(tr, self, other) ==
    LET x == cast(other, "Trait")
    IN  /\ x # None
        /\ \/ eq(self, x[1])
           \/ \E k \in DOMAIN tr[self.id].supertraits :
                  is_assignable_to(tr, Trait(tr[self.id].supertraits[k]), x[1])

\* impl Type for Function, after the hook: same arity, covariant return type,
\* contravariant argument types.
MutFunctionCovariantArgs(tr, self, other) ==
    LET x == cast(other, "Function")
    IN  /\ x # None
        /\ Len(self.args) = Len(x[1].args)
        /\ is_assignable_to(tr, self.return_type, x[1].return_type)
        /\ \A i \in 1..Len(self.args) :
               is_assignable_to(tr, self.args[i].arg_type, x[1].args[i].arg_type)

MutFunctionBivariantArgs(tr, self, other) ==
    LET x == cast(other, "Function")
    IN  /\ x # None
        /\ Len(self.args) = Len(x[1].args)
        /\ is_assignable_to(tr, self.return_type, x[1].return_type)
        /\ \A i \in 1..Len(self.args) :
               \/ is_assignable_to(tr, x[1].args[i].arg_type, self.args[i].arg_type)
               \/ is_assignable_to(tr, self.args[i].arg_type, x[1].args[i].arg_type)

FunctionRule(tr, self, other) ==
    LET x == cast(other, "Function")
    IN  /\ x # None
        /\ Len(self.args) = Len(x[1].args)
        /\ is_assignable_to(tr, self.return_type, x[1].return_type)
        /\ \A i \in 1..Len(self.args) :
               is_assignable_to(tr, x[1].args[i].arg_type, self.args[i].arg_type)

\* The representation-specific rule of self, applied when the hook has no opinion.
OwnRule(tr, self, other) ==
    CASE self.kind = "Primitive" -> PrimitiveRule(self, other)
      [] self.kind = "Trait"     -> TraitRule(tr, self, other)
      [] self.kind = "Function"  -> FunctionRule(tr, self, other)

\* Type::is_assignable_to of Primitive, Trait and Function: the hook of `other`
\* is asked first, and its decision is returned when it gives one.
MutNoHook(tr, self, other) == OwnRule(tr, self, other)

is_assignable_to(tr, self, other) ==
    LET h == is_supertype_of(other, self)
    IN  IF h # None THEN h[1] ELSE OwnRule(tr, self, other)

----------------------------------------------------------------------------
(* Construction. *)

\* The handles a caller of Trait::new can pass: Trait::new takes
\* Vec<&Arc<Trait>>, references to traits that already exist.  The lists are
\* drawn without repetition, in the order of construction.
ExistingHandles(tr) ==
    {s \in SeqsUpTo(1..Len(tr), Len(tr)) :
        \A i, j \in DOMAIN s : i < j => s[i] < s[j]}

\* Trait::new_arc(sup): a new node whose supertraits are clones of the handles
\* given; no existing node is touched.
MutTraitNewSelfSuper(tr, sup) ==
    Append(tr, [supertraits |-> Append(sup, Len(tr) + 1)])

MutTraitNewDrainsSupers(tr, sup) ==
    Append([i \in DOMAIN tr |->
                IF \E k \in DOMAIN sup : sup[k] = i
                THEN [supertraits |-> <<>>] ELSE tr[i]],
           [supertraits |-> sup])

TraitNewArc(tr, sup) == Append(tr, [supertraits |-> sup])

\* The types a host program can hand to a query when the arena holds n traits.
TraitHandles(n) == {Trait(i) : i \in 1..n}

Leaves(n) == Primitives \cup TraitHandles(n)

Void == Primitive("Void", 0)

\* Functions of at most one argument, of either name, over the traits and Void.
Unary(n) ==
    {FunctionNew(al, r) :
        al \in {<<>>} \cup {<<<<nm, t>>>> : nm \in Names, t \in TraitHandles(n) \cup {Void}},
        r \in TraitHandles(n) \cup {Void}}

\* Functions of two to MaxArgs arguments, each of the first or of the last
\* trait constructed, returning Void.
Nary(n) ==
    {FunctionNew([i \in DOMAIN ts |-> <<"a", ts[i]>>], Void) :
        ts \in {s \in SeqsUpTo(TraitHandles(n) \cap {Trait(1), Trait(n)}, MaxArgs) :
                   Len(s) >= 2}}

\* Functions whose argument or return type is itself a function.
Getters(n) == {FunctionNew(<<>>, t) : t \in TraitHandles(n)}
Callbacks(n) == {FunctionNew(<<<<"a", t>>>>, Void) : t \in TraitHandles(n)}

HigherOrder(n) ==
    {FunctionNew(al, r) :
        al \in {<<>>} \cup {<<<<"a", t>>>> : t \in Getters(n) \cup Callbacks(n)},
        r \in {Void} \cup Getters(n)}

Types(n) == Leaves(n) \cup Unary(n) \cup Nary(n) \cup HigherOrder(n)

----------------------------------------------------------------------------
(* The program: traits are constructed, queries are issued. *)

NoQuery == [status |-> "idle"]

Init ==
    /\ traits = <<>>
    /\ q = NoQuery
    /\ stack = <<>>
    /\ ret = None

\* let t = Trait::new_arc(sup)
NewTrait ==
    /\ q.status # "running"
    /\ Len(traits) < MaxTraits
    /\ \E sup \in ExistingHandles(traits) : traits' = TraitNewArc(traits, sup)
    /\ UNCHANGED <<q, stack, ret>>

\* let r = self.is_assignable_to(other), for operands built from the traits
\* that exist; `other` may be of a representation that overrides the hook.
Query ==
    /\ q.status = "idle"
    /\ \E self \in Types(Len(traits)), other \in Types(Len(traits)) \cup ExtTypes :
           q' = [status |-> "done", self |-> self, other |-> other,
                 at |-> Len(traits),
                 result |-> is_assignable_to(traits, self, other)]
    /\ UNCHANGED <<traits, stack, ret>>

\* The same query issued again, at any later point.
Requery ==
    /\ q.status = "done"
    /\ q' = [q EXCEPT !.result = is_assignable_to(traits, q.self, q.other)]
    /\ UNCHANGED <<traits, stack, ret>>

Next == NewTrait \/ Query \/ Requery

Spec == Init /\ [][Next]_vars

----------------------------------------------------------------------------
(* The query as it executes: one call, or one iteration of a loop, per step. *)

\* The deepest call stack a query on an acyclic arena of at most MaxTraits
\* traits needs: three levels of function types and a chain through every
\* trait.  A call beyond it overflows the stack, which aborts the program.
StackLimit == MaxTraits + 3

\* A call self.is_assignable_to(other) that has not run yet.
Frame(self, other) == [self |-> self, other |-> other, pc |-> "enter", i |-> 0]

Top == stack[Len(stack)]

SetTop(pc, i) == [stack EXCEPT ![Len(stack)] = [@ EXCEPT !.pc = pc, !.i = i]]

\* `return v`: the frame is popped and v handed to the caller; the outermost
\* call's value is the result of the query.
Return(v) ==
    LET rest == SubSeq(stack, 1, Len(stack) - 1)
    IN  /\ stack' = rest
        /\ ret' = Some(v)
        /\ q' = IF rest = <<>>
                THEN [status |-> "done", self |-> q.self, other |-> q.other,
                      at |-> q.at, result |-> v]
                ELSE q
        /\ UNCHANGED traits

\* The running call goes on at pc, iteration i.
Goto(pc, i) ==
    /\ stack' = SetTop(pc, i)
    /\ ret' = None
    /\ UNCHANGED <<traits, q>>

\* The running call calls callee.is_assignable_to(target) and waits at pc.
CallFrom(pc, i, callee, target) ==
    IF Len(stack) >= StackLimit
    THEN /\ q' = [q EXCEPT !.status = "overflow"]
         /\ UNCHANGED <<traits, stack, ret>>
    ELSE /\ stack' = Append(SetTop(pc, i), Frame(callee, target))
         /\ ret' = None
         /\ UNCHANGED <<traits, q>>

\* An index out of bounds: the program panics.
Panic ==
    /\ q' = [q EXCEPT !.status = "panic"]
    /\ UNCHANGED <<traits, stack, ret>>

Running == q.status = "running" /\ stack # <<>>

\* let r = self.is_assignable_to(other): the call is made.
Call ==
    /\ q.status = "idle"
    /\ \E self \in Types(Len(traits)), other \in Types(Len(traits)) \cup ExtTypes :
           /\ q' = [status |-> "running", self |-> self, other |-> other,
                    at |-> Len(traits)]
           /\ stack' = <<Frame(self, other)>>
    /\ ret' = None
    /\ UNCHANGED traits

\* if let Some(x) = other.is_supertype_of(self.boxed()) { return x; }
EnterHook ==
    /\ Running
    /\ Top.pc = "enter"
    /\ is_supertype_of(Top.other, Top.self) # None
    /\ Return(is_supertype_of(Top.other, Top.self)[1])

\* Primitive: if let Some(x) = other.cast::<Primitive>() { x == self } else { false }
EnterPrimitive ==
    /\ Running
    /\ Top.pc = "enter"
    /\ is_supertype_of(Top.other, Top.self) = None
    /\ Top.self.kind = "Primitive"
    /\ Return(PrimitiveRule(Top.self, Top.other))

\* Trait: the cast, then eq(self, x), then the iteration over self.supertraits.
EnterTrait ==
    /\ Running
    /\ Top.pc = "enter"
    /\ is_supertype_of(Top.other, Top.self) = None
    /\ Top.self.kind = "Trait"
    /\ IF cast(Top.other, "Trait") = None THEN Return(FALSE)
       ELSE IF eq(Top.self, Top.other) THEN Return(TRUE)
       ELSE Goto("any", 1)

\* The supertrait the i-th iteration of any() asks.
MutAnyCalleeIsSelf(tr, f) == f.self

AnyCallee(tr, f) == Trait(tr[f.self.id].supertraits[f.i])

\* any(|s| s.is_assignable_to(x)): the next supertrait is asked, or none is left.
AnyNext ==
    /\ Running
    /\ Top.pc = "any"
    /\ IF Top.i > Len(traits[Top.self.id].supertraits) THEN Return(FALSE)
       ELSE CallFrom("any_back", Top.i, AnyCallee(traits, Top), Top.other)

\* any() stops at the first supertrait that answers true.
AnyBack ==
    /\ Running
    /\ Top.pc = "any_back"
    /\ IF ret[1] THEN Return(TRUE) ELSE Goto("any", Top.i + 1)

\* self.args.len() != x.args.len(), negated.
ArityMatches(f) == Len(f.self.args) = Len(f.other.args)

\* Function: the cast, the arity test, then the return types.
EnterFunction ==
    /\ Running
    /\ Top.pc = "enter"
    /\ is_supertype_of(Top.other, Top.self) = None
    /\ Top.self.kind = "Function"
    /\ IF cast(Top.other, "Function") = None THEN Return(FALSE)
       ELSE IF ~ArityMatches(Top) THEN Return(FALSE)
       ELSE CallFrom("ret_back", 0, Top.self.return_type, Top.other.return_type)

\* || !self.return_type.is_assignable_to(x.return_type.as_ref()) { return false; }
RetBack ==
    /\ Running
    /\ Top.pc = "ret_back"
    /\ IF ~ret[1] THEN Return(FALSE) ELSE Goto("args", 1)

\* for i in 0..self.args.len(): x.args[i] is asked about self.args[i].
ArgsNext ==
    /\ Running
    /\ Top.pc = "args"
    /\ IF Top.i > Len(Top.self.args) THEN Return(TRUE)
       ELSE IF Top.i > Len(Top.other.args) THEN Panic
       ELSE CallFrom("args_back", Top.i, Top.other.args[Top.i].arg_type,
                     Top.self.args[Top.i].arg_type)

\* if !x.args[i].arg_type.is_assignable_to(..) { return false; }
ArgsBack ==
    /\ Running
    /\ Top.pc = "args_back"
    /\ IF ~ret[1] THEN Return(FALSE) ELSE Goto("args", Top.i + 1)

\* One step of the running query.
Run ==
    \/ EnterHook \/ EnterPrimitive \/ EnterTrait \/ EnterFunction
    \/ AnyNext \/ AnyBack \/ RetBack \/ ArgsNext \/ ArgsBack

NextLive == NewTrait \/ Call \/ Run

\* The program is single-threaded and a query is synchronous: a call that can
\* take a step takes it.
LiveSpec == Init /\ [][NextLive]_vars /\ WF_vars(Run)

----------------------------------------------------------------------------
(* Reference notions the properties are stated with. *)

Done == q.status = "done"

\* The query's target is of one of the three representations of the repository,
\* whose hook has no opinion.
OwnTarget == q.other.kind \in Kinds

Range(f) == {f[k] : k \in DOMAIN f}

\* The nodes reachable from the nodes of S by supertrait edges, S included: the
\* least fixed point, computed by iteration.
RECURSIVE Closure(_, _)
Closure(tr, S) ==
    LET N == S \cup UNION {Range(tr[i].supertraits) : i \in S \cap DOMAIN tr}
    IN  IF N = S THEN S ELSE Closure(tr, N)

\* The nodes reachable from node i by one or more supertrait edges.
StrictAncestors(tr, i) == Closure(tr, Range(tr[i].supertraits))

\* A function type with every argument renamed to nm.
Renamed(f, nm) == [f EXCEPT !.args = [i \in DOMAIN f.args |-> [f.args[i] EXCEPT !.name = nm]]]

----------------------------------------------------------------------------
(* Properties. *)

\* C1: the hook of the target is asked first, with the left-hand type itself as
\* the candidate; a decision it gives is the result of the query, whatever the
\* left-hand type's own rule says, and only without a decision is the own rule
\* (narrowing, then equality, reachability or variance) the result.
HookDecisionIsFinal ==
    Done =>
        LET h == IF q.other.kind = "Ext" THEN q.other.opinion[q.self.kind] ELSE None
        IN  IF h # None
            THEN q.result = h[1]
            ELSE q.result = OwnRule(traits, q.self, q.other)

\* A query of each representation whose target's hook decides TRUE where the
\* own rule says FALSE.
HookOverridesOwnRule ==
    /\ Done
    /\ q.self.kind = "Function"
    /\ q.other.kind = "Ext"
    /\ q.other.opinion["Function"] = Some(TRUE)
    /\ q.other.opinion["Primitive"] = Some(FALSE)
    /\ q.result = TRUE
    /\ ~OwnRule(traits, q.self, q.other)

\* C2: every type is assignable to itself.
Reflexivity == (Done /\ q.self = q.other) => q.result = TRUE

\* A function of a trait argument, returning a function, queried against itself.
ReflexiveFunctionQueried ==
    /\ Done
    /\ q.self = q.other
    /\ q.self.kind = "Function"
    /\ Len(q.self.args) = 1
    /\ q.self.args[1].arg_type.kind = "Function"
    /\ q.self.return_type.kind = "Function"
    /\ q.result = TRUE

\* C3: a Primitive is assignable to a Primitive, Trait or Function target
\* exactly when the target is a Primitive of the same variant and width.
PrimitiveExactness ==
    (Done /\ q.self.kind = "Primitive" /\ OwnTarget) =>
        (q.result <=> (q.other \in Primitives /\ q.other = q.self))

\* Int(32) queried against Int(64): not assignable.
WidthMismatchQueried ==
    /\ Done
    /\ q.self = Primitive("Int", 32)
    /\ q.other = Primitive("Int", 64)
    /\ q.result = FALSE

\* C4: a Trait is assignable to a Primitive, Trait or Function target exactly
\* when the target is a Trait that is the same node or is reachable from it by
\* supertrait edges.
TraitReachability ==
    (Done /\ q.self.kind = "Trait" /\ OwnTarget) =>
        (q.result <=>
            (q.other.kind = "Trait" /\ q.other.id \in Closure(traits, {q.self.id})))

\* A trait queried against an ancestor that is not one of its direct supertraits.
IndirectAncestorQueried ==
    /\ Done
    /\ q.self.kind = "Trait"
    /\ q.other.kind = "Trait"
    /\ q.other.id # q.self.id
    /\ q.other.id \notin Range(traits[q.self.id].supertraits)
    /\ q.result = TRUE

\* C5: a Function is assignable to a Primitive, Trait or Function target exactly
\* when the target is a Function of the same arity, the return types are
\* assignable in the same direction and the argument types, position by
\* position, in the opposite direction; argument names do not matter.
FunctionVariance ==
    (Done /\ q.self.kind = "Function" /\ OwnTarget) =>
        /\ q.result <=>
              /\ q.other.kind = "Function"
              /\ Len(q.other.args) = Len(q.self.args)
              /\ is_assignable_to(traits, q.self.return_type, q.other.return_type)
              /\ \A i \in 1..Len(q.self.args) :
                     is_assignable_to(traits, q.other.args[i].arg_type,
                                      q.self.args[i].arg_type)
        /\ q.other.kind = "Function" =>
              \A n1, n2 \in Names :
                  q.result = is_assignable_to(traits, Renamed(q.self, n1),
                                              Renamed(q.other, n2))

\* A function of a supertrait argument queried against the function of the
\* subtrait argument, under another argument name: assignable.
ContravariantArgumentQueried ==
    /\ Done
    /\ q.self.kind = "Function"
    /\ q.other.kind = "Function"
    /\ Len(q.self.args) = 1
    /\ Len(q.other.args) = 1
    /\ q.self.args[1].name # q.other.args[1].name
    /\ q.self.args[1].arg_type.kind = "Trait"
    /\ q.other.args[1].arg_type.kind = "Trait"
    /\ q.self.args[1].arg_type # q.other.args[1].arg_type
    /\ q.result = TRUE

\* C6, as claimed: whatever the target's hook would return, a Primitive is
\* assignable to a target exactly when the target narrows to an equal Primitive.
PrimitiveIgnoresHook ==
    (Done /\ q.self.kind = "Primitive") =>
        (q.result <=> (q.other \in Primitives /\ q.other = q.self))

\* C6, amended: a Primitive's query returns the decision of the target's hook
\* when it gives one, and otherwise TRUE exactly when the target narrows to an
\* equal Primitive.
PrimitiveHookThenExact ==
    (Done /\ q.self.kind = "Primitive") =>
        IF q.other.kind = "Ext" /\ q.other.opinion["Primitive"] # None
        THEN q.result = q.other.opinion["Primitive"][1]
        ELSE q.result <=> (q.other \in Primitives /\ q.other = q.self)

\* A Primitive queried against a target that is no Primitive and whose hook
\* claims it.
PrimitiveClaimedByHook ==
    /\ Done
    /\ q.self.kind = "Primitive"
    /\ q.other.kind = "Ext"
    /\ q.other.opinion["Primitive"] = Some(TRUE)
    /\ q.result = TRUE

\* C7: the supertrait graph is acyclic: no trait is reachable from itself by
\* one or more supertrait edges.
Acyclic == \A i \in DOMAIN traits : i \notin StrictAncestors(traits, i)

\* Three traits constructed, the last with two supertraits.
MultipleSupertraitsConstructed ==
    /\ Len(traits) >= 3
    /\ Len(traits[3].supertraits) = 2
    /\ traits[2].supertraits # <<>>

\* C9: a query and a construction leave every existing trait node as it is, and
\* a query issued again, at any later point, returns what it returned before.
ReferentialStability ==
    [][/\ Len(traits') >= Len(traits)
       /\ \A i \in DOMAIN traits : traits'[i] = traits[i]
       /\ Done =>
             /\ q'.status = "done"
             /\ q'.result = q.result
             /\ is_assignable_to(traits', q.self, q.other) = q.result]_vars

\* A query that returned TRUE before the last trait was constructed.
QueriedBeforeConstruction ==
    /\ Done
    /\ q.at < Len(traits)
    /\ q.self.kind = "Function"
    /\ q.other # q.self
    /\ q.result = TRUE

\* C10: the relation is transitive over Primitive, Trait and Function types.
Transitivity ==
    (Done /\ OwnTarget /\ q.result) =>
        \A c \in Types(Len(traits)) :
            is_assignable_to(traits, q.other, c) => is_assignable_to(traits, q.self, c)

\* Three distinct function types in a chain.
FunctionChainQueried ==
    /\ Done
    /\ q.result
    /\ q.self.kind = "Function"
    /\ q.other.kind = "Function"
    /\ q.other # q.self
    /\ \E c \in Types(Len(traits)) :
           /\ c # q.other
           /\ c # q.self
           /\ is_assignable_to(traits, q.other, c)

\* C8: every query returns, and returns a boolean: the recursion through
\* supertraits, return types and argument types neither runs forever nor ends
\* in a panic or a stack overflow.
Termination ==
    (q.status = "running") ~> (q.status = "done" /\ q.result \in BOOLEAN)

\* A query on functions of two arguments that has recursed into a trait's
\* supertraits.
DeepRecursionRunning ==
    /\ q.status = "running"
    /\ Len(stack) >= 3
    /\ stack[1].self.kind = "Function"
    /\ Len(stack[1].self.args) = 2
    /\ stack[1].pc = "args_back"
    /\ stack[1].i = 2
    /\ stack[2].pc = "any_back"

\* The query as executed returns what the relation says.
MachineAgrees ==
    Done => q.result = is_assignable_to(traits, q.self, q.other)

====
